---- MODULE Spec2Model ----
(***************************************************************************)
(* Kisaan-Mitra (src/Kisaan-Mitra.py): the advisory pipeline               *)
(*   geocode -> fetch weather -> classify zone -> soil -> advice -> report *)
(* and the pure functions it is built from.                                *)
(*                                                                         *)
(* Representation.                                                         *)
(*  - A latitude is an integer number of TENTHS of a degree, so the band   *)
(*    edges 23.5, 35 and 66 of the source are 235, 350 and 660.            *)
(*    Temperatures (deg C), precipitation (mm) and wind (km/h) are whole   *)
(*    numbers in their own unit.                                           *)
(*  - A Python dict is a function whose DOMAIN is the set of its keys;     *)
(*    d.get(k, default) is Get(d, k, default).                             *)
(*  - A Python str on which the code tests `in` or calls lower() is a      *)
(*    sequence of words (its text split at the blanks); `a in b` is        *)
(*    Contains(a, b).  Other strings are TLA+ strings.                     *)
(*  - None is the record None; a value that is a number or the literal     *)
(*    "N/A" is Num(n) or NA.                                               *)
(***************************************************************************)
EXTENDS Integers, Sequences, FiniteSets, TLC

VARIABLES
    pc,                 \* position of get_agricultural_recommendation
    location,           \* its argument
    geo_reply,          \* what the geocoding endpoint answered
    coords,             \* return value of get_coordinates
    weather_params,     \* latitude/longitude of the weather request sent
    weather_reply,      \* what the forecast endpoint answered
    raw_weather_data,   \* return value of fetch_combined_data
    climate_zone,       \* step 3
    soil_info,          \* step 4
    result,             \* what the invocation returned or raised
    log,                \* the steps executed so far, in order
    call                \* a direct call of one of the pure functions

pipeline_vars == <<pc, location, geo_reply, coords, weather_params, weather_reply,
                   raw_weather_data, climate_zone, soil_info, result, log>>

vars == <<pipeline_vars, call>>

----------------------------------------------------------------------------
(* Python values *)

None == [kind |-> "None"]

Num(n) == [tag |-> "num", n |-> n]

NA == [tag |-> "N/A", n |-> 0]

Abs(x) == IF x < 0 THEN -x ELSE x

Get(d, k, default) == IF k \in DOMAIN d THEN d[k] ELSE default

Contains(sub, s) ==
    \E i \in 0..(Len(s) - Len(sub)) : SubSeq(s, i + 1, i + Len(sub)) = sub

\* str.lower(), word by word, on the words the model uses
LowerWord(w) ==
    CASE w = "Tropical"    -> "tropical"
      [] w = "Rainforest"  -> "rainforest"
      [] w = "Subtropical" -> "subtropical"
      [] w = "Monsoon"     -> "monsoon"
      [] w = "Savanna"     -> "savanna"
      [] OTHER             -> w

Lower(s) == [i \in 1..Len(s) |-> LowerWord(s[i])]

\* all dicts whose keys are a subset of K, key k holding a value of V[k]
Dicts(K, V) ==
    UNION { {f \in [S -> UNION {V[k] : k \in K}] : \A k \in S : f[k] \in V[k]}
            : S \in SUBSET K }

----------------------------------------------------------------------------
(* interpret_weather_code *)

weather_codes ==
    [c \in {0, 1, 2, 3, 45, 48, 51, 53, 55, 61, 63, 65, 71, 73, 75, 77,
            80, 81, 82, 85, 86, 95, 96, 99} |->
        CASE c = 0  -> "Clear sky"
          [] c = 1  -> "Mainly clear"
          [] c = 2  -> "Partly cloudy"
          [] c = 3  -> "Overcast"
          [] c = 45 -> "Foggy"
          [] c = 48 -> "Depositing rime fog"
          [] c = 51 -> "Light drizzle"
          [] c = 53 -> "Moderate drizzle"
          [] c = 55 -> "Dense drizzle"
          [] c = 61 -> "Slight rain"
          [] c = 63 -> "Moderate rain"
          [] c = 65 -> "Heavy rain"
          [] c = 71 -> "Slight snow"
          [] c = 73 -> "Moderate snow"
          [] c = 75 -> "Heavy snow"
          [] c = 77 -> "Snow grains"
          [] c = 80 -> "Slight rain showers"
          [] c = 81 -> "Moderate rain showers"
          [] c = 82 -> "Violent rain showers"
          [] c = 85 -> "Slight snow showers"
          [] c = 86 -> "Heavy snow showers"
          [] c = 95 -> "Thunderstorm"
          [] c = 96 -> "Thunderstorm with slight hail"
          [] c = 99 -> "Thunderstorm with heavy hail"]

interpret_weather_code(code) == Get(weather_codes, code, "Unknown")

----------------------------------------------------------------------------
(* get_climate_zone *)

\* a plausible slip: the tropical band edge tested with < instead of <=
get_climate_zone_strict_edge(lat, temp, precip) ==
    LET zone_prefix ==
            IF Abs(lat) < 235 THEN <<"tropical">>
            ELSE IF Abs(lat) <= 350 THEN <<"subtropical">>
            ELSE <<"temperate">>
    IN  IF Abs(lat) > 660 THEN <<"polar">>
        ELSE IF zone_prefix = <<"tropical">> /\ temp > 25 /\ precip > 60
                THEN <<"tropical", "rainforest">>
        ELSE IF zone_prefix = <<"tropical">> /\ temp > 25
                THEN <<"tropical", "savanna">>
        ELSE IF zone_prefix = <<"subtropical">> /\ precip > 20
                THEN <<"subtropical", "monsoon">>
        ELSE zone_prefix

\* a plausible slip: the rainforest test written precip >= 60
get_climate_zone_wet_edge(lat, temp, precip) ==
    LET zone_prefix ==
            IF Abs(lat) <= 235 THEN <<"tropical">>
            ELSE IF Abs(lat) <= 350 THEN <<"subtropical">>
            ELSE <<"temperate">>
    IN  IF Abs(lat) > 660 THEN <<"polar">>
        ELSE IF zone_prefix = <<"tropical">> /\ temp > 25 /\ precip >= 60
                THEN <<"tropical", "rainforest">>
        ELSE IF zone_prefix = <<"tropical">> /\ temp > 25
                THEN <<"tropical", "savanna">>
        ELSE IF zone_prefix = <<"subtropical">> /\ precip > 20
                THEN <<"subtropical", "monsoon">>
        ELSE zone_prefix

get_climate_zone(lat, temp, precip) ==
    LET zone_prefix ==
            IF Abs(lat) <= 235 THEN <<"tropical">>
            ELSE IF Abs(lat) <= 350 THEN <<"subtropical">>
            ELSE <<"temperate">>
    IN  IF ~(Abs(lat) <= 235) /\ ~(Abs(lat) <= 350) /\ ~(Abs(lat) <= 660)
            THEN <<"polar">>
        ELSE IF zone_prefix = <<"tropical">> /\ temp > 25 /\ precip > 60
                THEN <<"tropical", "rainforest">>
        ELSE IF zone_prefix = <<"tropical">> /\ temp > 25
                THEN <<"tropical", "savanna">>
        ELSE IF zone_prefix = <<"subtropical">> /\ precip > 20
                THEN <<"subtropical", "monsoon">>
        ELSE zone_prefix

----------------------------------------------------------------------------
(* predict_soil_characteristics *)

Lateritic ==
    [type      |-> <<"Lateritic", "Soil">>,
     fertility |-> "Medium (prone to leaching)",
     erosion   |-> "High",
     crops     |-> <<"Rice", "Tropical Fruits", "Coffee", "Rubber">>,
     notes     |-> "Rich in iron oxides; needs careful erosion control and organic matter."]

RedYellow ==
    [type      |-> <<"Red", "and", "Yellow", "Soil">>,
     fertility |-> "Medium",
     erosion   |-> "Medium to High",
     crops     |-> <<"Maize", "Millet", "Cotton", "Pulses">>,
     notes     |-> "Seasonal rainfall dependent; deep ploughing helps water retention."]

SubtropicalLoam ==
    [type      |-> <<"Subtropical", "Loam/Alluvial", "Soil">>,
     fertility |-> "High",
     erosion   |-> "Low to Medium",
     crops     |-> <<"Citrus fruits", "Wheat", "Vegetables", "Olives", "Grapes">>,
     notes     |-> "Very versatile soil; careful water management is key, especially during dry spells."]

BrownEarth ==
    [type      |-> <<"Brown", "Earth/Forest", "Soil">>,
     fertility |-> "High",
     erosion   |-> "Low",
     crops     |-> <<"Wheat", "Corn", "Soybeans", "Root crops", "Barley">>,
     notes     |-> "Well-suited for extensive farming; lime may be needed to adjust pH."]

Tundra ==
    [type      |-> <<"Tundra", "Soil">>,
     fertility |-> "Low",
     erosion   |-> "Medium",
     crops     |-> <<"Hardy vegetables (e.g., kale)", "Short-season berries">>,
     notes     |-> "Limited growing season; focus on raised beds and protecting from permafrost."]

SoilProfiles == {Lateritic, RedYellow, SubtropicalLoam, BrownEarth, Tundra}

\* a plausible slip: the rainforest/monsoon test made before the latitude bands
predict_soil_label_first(lat, zone) ==
    LET climate_zone_lower == Lower(zone)
    IN  IF Abs(lat) <= 350
                /\ (\/ Contains(<<"rainforest">>, climate_zone_lower)
                    \/ Contains(<<"monsoon">>, climate_zone_lower))
            THEN Lateritic
        ELSE IF Abs(lat) <= 235 THEN RedYellow
        ELSE IF Abs(lat) <= 350 THEN SubtropicalLoam
        ELSE IF Abs(lat) <= 660 THEN BrownEarth
        ELSE Tundra

predict_soil_characteristics(lat, zone) ==
    LET climate_zone_lower == Lower(zone)
    IN  IF Abs(lat) <= 235 THEN
            IF \/ Contains(<<"rainforest">>, climate_zone_lower)
               \/ Contains(<<"monsoon">>, climate_zone_lower)
                THEN Lateritic
                ELSE RedYellow
        ELSE IF Abs(lat) <= 350 THEN SubtropicalLoam
        ELSE IF Abs(lat) <= 660 THEN BrownEarth
        ELSE Tundra

----------------------------------------------------------------------------
(* AgriAgent.generate_advice: the advice is the list of sentences appended, *)
(* in order; each sentence is the rule that produced it and the text it     *)
(* interpolates.                                                            *)

Sentence(rule, arg) == [rule |-> rule, arg |-> arg]

RainCodes == {61, 63, 65, 80, 81, 82}

\* a plausible slip: the heat test written >= 30 and the wind test >= 30
generate_advice_inclusive(weather, soil) ==
    LET soil_type == soil.type
        erosion   == soil.erosion
        current   == Get(weather, "current", <<>>)
        temp      == Get(current, "temperature_2m", 0)
        precip    == Get(current, "precipitation", 0)
        wind      == Get(current, "wind_speed_10m", 0)
        code      == Get(current, "weather_code", 0)
        a1 == <<Sentence("soil_type", soil_type)>>
        a2 == IF Contains(<<"Lateritic", "Soil">>, soil_type) \/ erosion = "High"
                THEN Append(a1, Sentence("erosion", <<>>)) ELSE a1
        a3 == IF temp >= 30 THEN Append(a2, Sentence("heat", <<>>))
              ELSE IF temp < 10 THEN Append(a2, Sentence("cold", <<>>))
              ELSE a2
        a4 == IF precip > 0 \/ code \in RainCodes
                THEN Append(a3, Sentence("rain", <<>>)) ELSE a3
        a5 == IF wind >= 30 THEN Append(a4, Sentence("wind", <<>>)) ELSE a4
        a6 == Append(a5, Sentence("crops", soil.crops))
        a7 == Append(a6, Sentence("fertility", <<soil.fertility>>))
    IN  IF a7 = <<>> THEN <<Sentence("stable", <<>>)>> ELSE a7

generate_advice(weather, soil) ==
    LET soil_type == soil.type
        erosion   == soil.erosion
        current   == Get(weather, "current", <<>>)
        temp      == Get(current, "temperature_2m", 0)
        precip    == Get(current, "precipitation", 0)
        wind      == Get(current, "wind_speed_10m", 0)
        code      == Get(current, "weather_code", 0)
        a1 == <<Sentence("soil_type", soil_type)>>
        a2 == IF Contains(<<"Lateritic", "Soil">>, soil_type) \/ erosion = "High"
                THEN Append(a1, Sentence("erosion", <<>>)) ELSE a1
        a3 == IF temp > 30 THEN Append(a2, Sentence("heat", <<>>))
              ELSE IF temp < 10 THEN Append(a2, Sentence("cold", <<>>))
              ELSE a2
        a4 == IF precip > 0 \/ code \in RainCodes
                THEN Append(a3, Sentence("rain", <<>>)) ELSE a3
        a5 == IF wind > 30 THEN Append(a4, Sentence("wind", <<>>)) ELSE a4
        a6 == Append(a5, Sentence("crops", soil.crops))
        a7 == Append(a6, Sentence("fertility", <<soil.fertility>>))
    IN  IF a7 = <<>> THEN <<Sentence("stable", <<>>)>> ELSE a7

----------------------------------------------------------------------------
(* The two endpoints.  A reply is either a failure of the request, of the   *)
(* status check or of the JSON parsing (kind "error", with the exception    *)
(* raised) or a parsed JSON object (kind "ok").                             *)

TransportCauses == {"ConnectionError", "Timeout", "HTTPError", "JSONDecodeError"}

count == 1

forecast_days == 1

ResultKeys == {"latitude", "longitude", "name", "country", "admin1"}

MkResult(keys, lat, lon, name, country, admin1) ==
    [k \in keys |->
        CASE k = "latitude"  -> lat
          [] k = "longitude" -> lon
          [] k = "name"      -> name
          [] k = "country"   -> country
          [] k = "admin1"    -> admin1]

GeoLats == {-300, 200, 235, 236, 350, 351, 660, 661}

\* the result objects the geocoding endpoint may list
GeoResults ==
    {MkResult(ResultKeys \ drop, 100, 770, "Pune", c, a) :
        drop \in SUBSET {"country", "admin1"},
        c \in {"", "India"}, a \in {"", "Maharashtra"}}
    \cup {MkResult(ResultKeys, lat, 770, "Pune", "India", "Maharashtra") :
            lat \in GeoLats}
    \cup {MkResult(ResultKeys \ {k}, 100, 770, "Pune", "India", "Maharashtra") :
            k \in {"latitude", "longitude", "name"}}

SeqsUpTo(S, n) == UNION {[1..m -> S] : m \in 0..n}

GeoResponses ==
    {[kind |-> "error", cause |-> c] : c \in TransportCauses}
    \cup {[kind |-> "ok", json |-> <<>>]}
    \cup {[kind |-> "ok", json |-> [results |-> rs]] : rs \in SeqsUpTo(GeoResults, count)}

CurrentValues ==
    [temperature_2m       |-> {5, 35},
     relative_humidity_2m |-> {50},
     precipitation        |-> {2},
     wind_speed_10m       |-> {40},
     weather_code         |-> {61}]

CurrentMaps == Dicts(DOMAIN CurrentValues, CurrentValues)

DailyValues ==
    [temperature_2m_max |-> SeqsUpTo({20, 30}, forecast_days),
     precipitation_sum  |-> SeqsUpTo({10, 30, 70}, forecast_days)]

DailyMaps == Dicts(DOMAIN DailyValues, DailyValues)

Absent == [present |-> FALSE, v |-> <<>>]

Optional(S) == {Absent} \cup {[present |-> TRUE, v |-> d] : d \in S}

\* the JSON object of a forecast reply; "latitude" stands for the keys the
\* endpoint echoes besides "current" and "daily"
MkForecast(c, d, echo) ==
    [k \in (IF c.present THEN {"current"} ELSE {})
            \cup (IF d.present THEN {"daily"} ELSE {})
            \cup (IF echo THEN {"latitude"} ELSE {}) |->
        CASE k = "current"  -> c.v
          [] k = "daily"    -> d.v
          [] k = "latitude" -> 0]

ForecastObjects ==
    {MkForecast(c, d, echo) :
        c \in Optional(CurrentMaps), d \in Optional(DailyMaps), echo \in BOOLEAN}

WeatherResponses ==
    {[kind |-> "error", cause |-> c] : c \in TransportCauses}
    \cup {[kind |-> "ok", json |-> j] : j \in ForecastObjects}

----------------------------------------------------------------------------
(* AgriAgent.get_coordinates: every exception of the try block is caught,   *)
(* printed and turned into None.                                            *)

Coords(lat, lon, full_name) ==
    [kind |-> "tuple", lat |-> lat, lon |-> lon, name |-> full_name]

\* a plausible slip: the country appended before the region
FullName_country_first(r) ==
    LET country == Get(r, "country", "")
        admin1  == Get(r, "admin1", "")
        n0      == <<r["name"]>>
        n1      == IF country # "" THEN n0 \o <<", ", country>> ELSE n0
    IN  IF admin1 # "" THEN n1 \o <<", ", admin1>> ELSE n1

\* lines 121-129: the display name, as the pieces the f-strings put together
FullName(r) ==
    LET country == Get(r, "country", "")
        admin1  == Get(r, "admin1", "")
        n0      == <<r["name"]>>
        n1      == IF admin1 # "" THEN n0 \o <<", ", admin1>> ELSE n0
    IN  IF country # "" THEN n1 \o <<", ", country>> ELSE n1

\* a plausible slip: the required fields read with .get and a default
FirstResult_defaults(r) ==
    LET filled == [k \in ResultKeys |->
                     IF k \in DOMAIN r THEN r[k]
                     ELSE IF k \in {"latitude", "longitude"} THEN 0 ELSE ""]
    IN  Coords(filled["latitude"], filled["longitude"], FullName(filled))

\* lines 118-131: result["latitude"], ["longitude"] and ["name"] raise KeyError
\* when the key is missing, which line 135 catches
FirstResult(r) ==
    IF ~({"latitude", "longitude", "name"} \subseteq DOMAIN r)
    THEN None
    ELSE Coords(r["latitude"], r["longitude"], FullName(r))

get_coordinates(reply) ==
    IF reply.kind = "error" THEN None
    ELSE LET d == reply.json
         IN  IF "results" \in DOMAIN d /\ Len(d["results"]) > 0
             THEN FirstResult(d["results"][1])
             ELSE None

(* AgriAgent.fetch_combined_data *)

fetch_combined_data(reply) ==
    IF reply.kind = "error" THEN None ELSE reply.json

\* Python truth value of an Optional[Dict]: None and {} are false
Truthy(d) == d # None /\ d # <<>>

\* daily.get(key, [0])[0] if daily else 0
IndexError == [raised |-> TRUE, v |-> 0]

DailyFirst(daily, key) ==
    IF daily = <<>> THEN [raised |-> FALSE, v |-> 0]
    ELSE LET series == Get(daily, key, <<0>>)
         IN  IF Len(series) = 0 THEN IndexError
             ELSE [raised |-> FALSE, v |-> series[1]]

\* a plausible slip: the default of generate_advice used for the summary too
Reading_zero(current, key) == Num(Get(current, key, 0))

\* current.get(key, "N/A")
Reading(current, key) ==
    IF key \in DOMAIN current THEN Num(current[key]) ELSE NA

Report(c, raw, zone, soil) ==
    LET current == Get(raw, "current", <<>>)
    IN  [kind        |-> "report",
         location    |-> c.name,
         coordinates |-> [latitude |-> c.lat, longitude |-> c.lon],
         weather     |-> [temperature   |-> Reading(current, "temperature_2m"),
                          humidity      |-> Reading(current, "relative_humidity_2m"),
                          precipitation |-> Num(Get(current, "precipitation", 0)),
                          wind_speed    |-> Reading(current, "wind_speed_10m"),
                          condition     |-> interpret_weather_code(Get(current, "weather_code", 0)),
                          climate_zone  |-> zone],
         soil        |-> soil,
         advice      |-> generate_advice(raw, soil)]

ErrorResult(msg) == [kind |-> "error", error |-> msg]

Raised(exc) == [kind |-> "raised", exc |-> exc]

Pending == [kind |-> "pending"]

----------------------------------------------------------------------------
(* AgriAgent.get_agricultural_recommendation, step by step *)

Locations == {"", "Pune"}

Init ==
    /\ pc = "start"
    /\ location \in Locations
    /\ geo_reply = None
    /\ coords = None
    /\ weather_params = None
    /\ weather_reply = None
    /\ raw_weather_data = None
    /\ climate_zone = <<>>
    /\ soil_info = None
    /\ result = Pending
    /\ log = <<>>
    /\ call = [fn |-> "none"]

\* line 213 -> 113: the geocoding request goes out
GeocodeRequest ==
    /\ pc = "start"
    /\ pc' = "geocoding"
    /\ log' = Append(log, "geocode_request")
    /\ UNCHANGED <<location, geo_reply, coords, weather_params, weather_reply,
                   raw_weather_data, climate_zone, soil_info, result, call>>

\* lines 113-137: the endpoint answers and get_coordinates returns
GeocodeReply ==
    /\ pc = "geocoding"
    /\ \E reply \in GeoResponses :
            /\ geo_reply' = reply
            /\ coords' = get_coordinates(reply)
    /\ pc' = "geocoded"
    /\ UNCHANGED <<location, weather_params, weather_reply, raw_weather_data,
                   climate_zone, soil_info, result, log, call>>

\* lines 214-215
LocationNotFound ==
    /\ pc = "geocoded"
    /\ coords = None
    /\ result' = ErrorResult(<<"Could not find location: ", location>>)
    /\ pc' = "done"
    /\ UNCHANGED <<location, geo_reply, coords, weather_params, weather_reply,
                   raw_weather_data, climate_zone, soil_info, log, call>>

\* a plausible slip: the coordinates passed in the wrong order
WeatherRequest_swapped ==
    /\ pc = "geocoded"
    /\ coords # None
    /\ weather_params' = [latitude |-> coords.lon, longitude |-> coords.lat]
    /\ pc' = "fetching"
    /\ log' = Append(log, "weather_request")
    /\ UNCHANGED <<location, geo_reply, coords, weather_reply, raw_weather_data,
                   climate_zone, soil_info, result, call>>

\* lines 216-219 -> 144-154: the weather request goes out
WeatherRequest ==
    /\ pc = "geocoded"
    /\ coords # None
    /\ weather_params' = [latitude |-> coords.lat, longitude |-> coords.lon]
    /\ pc' = "fetching"
    /\ log' = Append(log, "weather_request")
    /\ UNCHANGED <<location, geo_reply, coords, weather_reply, raw_weather_data,
                   climate_zone, soil_info, result, call>>

\* lines 154-160: the endpoint answers and fetch_combined_data returns
WeatherReply ==
    /\ pc = "fetching"
    /\ \E reply \in WeatherResponses :
            /\ weather_reply' = reply
            /\ raw_weather_data' = fetch_combined_data(reply)
    /\ pc' = "fetched"
    /\ UNCHANGED <<location, geo_reply, coords, weather_params, climate_zone,
                   soil_info, result, log, call>>

\* lines 220-221
WeatherUnavailable ==
    /\ pc = "fetched"
    /\ ~Truthy(raw_weather_data)
    /\ result' = ErrorResult(<<"Could not fetch weather data">>)
    /\ pc' = "done"
    /\ UNCHANGED <<location, geo_reply, coords, weather_params, weather_reply,
                   raw_weather_data, climate_zone, soil_info, log, call>>

\* lines 224-229: an empty daily series raises IndexError at line 226 or 227,
\* which nothing in get_agricultural_recommendation catches
Classify ==
    /\ pc = "fetched"
    /\ Truthy(raw_weather_data)
    /\ LET daily            == Get(raw_weather_data, "daily", <<>>)
           temp_max_daily   == DailyFirst(daily, "temperature_2m_max")
           precip_sum_daily == DailyFirst(daily, "precipitation_sum")
       IN  IF temp_max_daily.raised \/ precip_sum_daily.raised
           THEN /\ result' = Raised("IndexError")
                /\ pc' = "done"
                /\ UNCHANGED <<climate_zone, log>>
           ELSE /\ climate_zone' = get_climate_zone(coords.lat, temp_max_daily.v,
                                                    precip_sum_daily.v)
                /\ pc' = "classified"
                /\ log' = Append(log, "classify")
                /\ UNCHANGED result
    /\ UNCHANGED <<location, geo_reply, coords, weather_params, weather_reply,
                   raw_weather_data, soil_info, call>>

\* line 232
PredictSoil ==
    /\ pc = "classified"
    /\ soil_info' = predict_soil_characteristics(coords.lat, climate_zone)
    /\ pc' = "soil"
    /\ log' = Append(log, "soil")
    /\ UNCHANGED <<location, geo_reply, coords, weather_params, weather_reply,
                   raw_weather_data, climate_zone, result, call>>

\* lines 235-259: summary, generate_advice and the report
ComposeReport ==
    /\ pc = "soil"
    /\ result' = Report(coords, raw_weather_data, climate_zone, soil_info)
    /\ pc' = "done"
    /\ log' = Append(log, "advice")
    /\ UNCHANGED <<location, geo_reply, coords, weather_params, weather_reply,
                   raw_weather_data, climate_zone, soil_info, call>>

Next ==
    \/ GeocodeRequest
    \/ GeocodeReply
    \/ LocationNotFound
    \/ WeatherRequest
    \/ WeatherReply
    \/ WeatherUnavailable
    \/ Classify
    \/ PredictSoil
    \/ ComposeReport

Spec == Init /\ [][Next]_vars

----------------------------------------------------------------------------
(* The pure functions called directly, each once, on inputs that straddle   *)
(* every threshold of the source.                                           *)

FnLats == {-900, -661, -660, -351, -350, -236, -235, 0, 100, 235, 236, 300,
           350, 351, 660, 661, 900}

FnTemps == {-5, 10, 25, 26, 40}

FnPrecips == {0, 20, 21, 25, 60, 61, 70}

ZoneLabels ==
    {<<"tropical">>, <<"tropical", "savanna">>, <<"tropical", "rainforest">>,
     <<"subtropical">>, <<"subtropical", "monsoon">>, <<"temperate">>, <<"polar">>}

FnLabels ==
    ZoneLabels \cup {<<"Tropical", "Rainforest">>, <<"Subtropical", "Monsoon">>,
                     <<"monsoon">>, <<>>}

SnapshotValues ==
    [temperature_2m |-> {-5, 9, 10, 30, 31},
     precipitation  |-> {0, 1},
     wind_speed_10m |-> {30, 31},
     weather_code   |-> {0, 61, 62, 63, 65, 80, 81, 82, 95}]

Snapshots ==
    {<<>>} \cup
    {[current |-> c] :
        c \in Dicts(DOMAIN SnapshotValues, SnapshotValues)}

CallClimate ==
    /\ call.fn = "none"
    /\ \E lat \in FnLats, temp \in FnTemps, precip \in FnPrecips :
            call' = [fn |-> "get_climate_zone", lat |-> lat, temp |-> temp,
                     precip |-> precip, ret |-> get_climate_zone(lat, temp, precip)]
    /\ UNCHANGED pipeline_vars

CallSoil ==
    /\ call.fn = "none"
    /\ \E lat \in FnLats, zone \in FnLabels :
            call' = [fn |-> "predict_soil_characteristics", lat |-> lat,
                     zone |-> zone, ret |-> predict_soil_characteristics(lat, zone)]
    /\ UNCHANGED pipeline_vars

CallAdvice ==
    /\ call.fn = "none"
    /\ \E weather \in Snapshots, soil \in SoilProfiles :
            call' = [fn |-> "generate_advice", weather |-> weather, soil |-> soil,
                     ret |-> generate_advice(weather, soil)]
    /\ UNCHANGED pipeline_vars

FnNext == CallClimate \/ CallSoil \/ CallAdvice

FnSpec == Init /\ [][FnNext]_vars

----------------------------------------------------------------------------
(* Vocabulary of the claims *)

\* the outcome of the geocoding step, as the contract of resolve() names it
GeoOutcome(reply) ==
    IF reply.kind = "error" THEN "TransportError"
    ELSE IF "results" \notin DOMAIN reply.json THEN "NotFound"
    ELSE IF Len(reply.json["results"]) = 0 THEN "NotFound"
    ELSE IF {"latitude", "longitude", "name"} \subseteq DOMAIN reply.json["results"][1]
         THEN "LocationResult"
    ELSE "TransportError"

AfterGeocoding == pc \notin {"start", "geocoding"}

AfterWeather == pc \notin {"start", "geocoding", "geocoded", "fetching"}

Rules(advice) == [i \in 1..Len(advice) |-> advice[i].rule]

HasRule(advice, rule) == \E i \in 1..Len(advice) : advice[i].rule = rule

Rank(rule) ==
    CASE rule = "soil_type" -> 1
      [] rule = "erosion"   -> 2
      [] rule = "heat"      -> 3
      [] rule = "cold"      -> 3
      [] rule = "rain"      -> 4
      [] rule = "wind"      -> 5
      [] rule = "crops"     -> 6
      [] rule = "fertility" -> 7
      [] OTHER              -> 0

InRuleOrder(advice) ==
    /\ \A i \in 1..Len(advice) : Rank(advice[i].rule) > 0
    /\ \A i \in 1..(Len(advice) - 1) : Rank(advice[i].rule) < Rank(advice[i + 1].rule)

PipelineOrder == <<"geocode_request", "weather_request", "classify", "soil", "advice">>

IsPrefix(s, t) == Len(s) <= Len(t) /\ s = SubSeq(t, 1, Len(s))

Occurrences(s, x) == Cardinality({i \in 1..Len(s) : s[i] = x})

\* what the claims call the daily value: the first element of the series, 0
\* when the daily map or the series is absent or empty
DailyOrZero(json, key) ==
    LET daily == Get(json, "daily", <<>>)
        series == Get(daily, key, <<>>)
    IN  IF Len(series) = 0 THEN 0 ELSE series[1]

MissingOptional(json) ==
    \/ Get(json, "current", <<>>) = <<>>
    \/ Get(json, "daily", <<>>) = <<>>
    \/ Get(Get(json, "daily", <<>>), "temperature_2m_max", <<>>) = <<>>
    \/ Get(Get(json, "daily", <<>>), "precipitation_sum", <<>>) = <<>>

----------------------------------------------------------------------------
(* C1: for every location and every outcome of the two network steps the    *)
(* invocation returns and never raises: an error result with a message when *)
(* geocoding yields NotFound or TransportError, an error result when the    *)
(* weather fetch yields TransportError, the full report otherwise.          *)
C1_AlwaysReturns ==
    pc = "done" =>
        /\ result.kind # "raised"
        /\ GeoOutcome(geo_reply) \in {"NotFound", "TransportError"} =>
                result.kind = "error" /\ Len(result.error) > 0
        /\ GeoOutcome(geo_reply) = "LocationResult" /\ weather_reply.kind = "error" =>
                result.kind = "error"
        /\ GeoOutcome(geo_reply) = "LocationResult" /\ weather_reply.kind = "ok" =>
                result.kind = "report"

(* C2: the steps of one invocation are strictly ordered and never repeated: *)
(* the weather request is sent only after geocoding succeeded, with exactly *)
(* the resolved latitude and longitude; classification, soil lookup and     *)
(* advice happen only after the weather fetch succeeded; the geocoding      *)
(* request is issued exactly once and the weather request at most once; and *)
(* after a failure of either network step no later step runs.               *)
C2_StrictOrder ==
    /\ IsPrefix(log, PipelineOrder)
    /\ pc # "start" => Occurrences(log, "geocode_request") = 1
    /\ Occurrences(log, "weather_request") <= 1
    /\ Occurrences(log, "weather_request") = 1 =>
            /\ AfterGeocoding
            /\ GeoOutcome(geo_reply) = "LocationResult"
            /\ weather_params = [latitude  |-> geo_reply.json["results"][1]["latitude"],
                                 longitude |-> geo_reply.json["results"][1]["longitude"]]
    /\ (\E i \in 1..Len(log) : log[i] \in {"classify", "soil", "advice"}) =>
            AfterWeather /\ weather_reply.kind = "ok"
    /\ AfterGeocoding /\ GeoOutcome(geo_reply) # "LocationResult" =>
            log = <<"geocode_request">>
    /\ AfterWeather /\ weather_reply.kind = "error" =>
            log = <<"geocode_request", "weather_request">>

C2_Witness ==
    /\ pc = "done"
    /\ log = PipelineOrder
    /\ result.kind = "report"
    /\ weather_params = [latitude |-> 235, longitude |-> 770]

(* C3: when both network steps succeed, a weather response whose current    *)
(* map, daily map or either daily series is absent or empty still yields    *)
(* the full report, classified with the daily maximum temperature and the   *)
(* daily precipitation sum defaulted to 0 and with absent current fields    *)
(* reported as 0 or "N/A".                                                  *)
C3_MissingFieldsBenign ==
    (/\ pc = "done"
     /\ GeoOutcome(geo_reply) = "LocationResult"
     /\ weather_reply.kind = "ok"
     /\ MissingOptional(weather_reply.json)) =>
        /\ result.kind = "report"
        /\ result.weather.climate_zone =
                get_climate_zone(coords.lat,
                                 DailyOrZero(weather_reply.json, "temperature_2m_max"),
                                 DailyOrZero(weather_reply.json, "precipitation_sum"))
        /\ LET current == Get(weather_reply.json, "current", <<>>)
           IN  /\ "temperature_2m" \notin DOMAIN current => result.weather.temperature = NA
               /\ "relative_humidity_2m" \notin DOMAIN current => result.weather.humidity = NA
               /\ "wind_speed_10m" \notin DOMAIN current => result.weather.wind_speed = NA
               /\ "precipitation" \notin DOMAIN current => result.weather.precipitation = Num(0)

(* C4: get_climate_zone returns the zone of the ordered first-match rules:  *)
(* polar when |lat| > 66; else in |lat| <= 23.5 tropical rainforest when    *)
(* temp > 25 and precip > 60, tropical savanna when temp > 25, tropical     *)
(* otherwise; else in |lat| <= 35 subtropical monsoon when precip > 20,     *)
(* subtropical otherwise; else temperate; always one of the seven labels.   *)
C4_ZoneRules ==
    call.fn = "get_climate_zone" =>
        LET a == Abs(call.lat)
            t == call.temp
            p == call.precip
            z == call.ret
        IN  /\ z \in ZoneLabels
            /\ a > 660 => z = <<"polar">>
            /\ a <= 235 /\ t > 25 /\ p > 60 => z = <<"tropical", "rainforest">>
            /\ a <= 235 /\ t > 25 /\ ~(p > 60) => z = <<"tropical", "savanna">>
            /\ a <= 235 /\ ~(t > 25) => z = <<"tropical">>
            /\ a > 235 /\ a <= 350 /\ p > 20 => z = <<"subtropical", "monsoon">>
            /\ a > 235 /\ a <= 350 /\ ~(p > 20) => z = <<"subtropical">>
            /\ a > 350 /\ a <= 660 => z = <<"temperate">>

C4_Witness ==
    /\ call.fn = "get_climate_zone"
    /\ call.lat = -235 /\ call.temp = 26 /\ call.precip = 60
    /\ call.ret = <<"tropical", "savanna">>

(* C5: predict_soil_characteristics returns one of the 5 profiles, chosen   *)
(* by latitude band: Lateritic iff |lat| <= 23.5 and the label contains     *)
(* "rainforest" or "monsoon", Red and Yellow iff |lat| <= 23.5 otherwise,   *)
(* Subtropical Loam/Alluvial iff 23.5 < |lat| <= 35, Brown Earth/Forest iff *)
(* 35 < |lat| <= 66, Tundra iff |lat| > 66; outside the tropical band the   *)
(* label has no effect.                                                     *)
C5_SoilByBand ==
    (call.fn = "predict_soil_characteristics" /\ call.zone = Lower(call.zone)) =>
        LET a == Abs(call.lat)
            wet == \/ Contains(<<"rainforest">>, call.zone)
                   \/ Contains(<<"monsoon">>, call.zone)
            soil == call.ret
        IN  /\ soil \in SoilProfiles
            /\ soil = Lateritic <=> (a <= 235 /\ wet)
            /\ soil = RedYellow <=> (a <= 235 /\ ~wet)
            /\ soil = SubtropicalLoam <=> (a > 235 /\ a <= 350)
            /\ soil = BrownEarth <=> (a > 350 /\ a <= 660)
            /\ soil = Tundra <=> a > 660

C5_Witness ==
    /\ call.fn = "predict_soil_characteristics"
    /\ call.lat = 300
    /\ call.zone = <<"subtropical", "monsoon">>
    /\ call.ret = SubtropicalLoam

(* C6: generate_advice emits its sentences in the fixed rule order (soil    *)
(* type, erosion, heat or cold, rainfall, wind, crops, fertility), each at  *)
(* most once; soil type, crops and fertility always; erosion iff the soil   *)
(* type contains "Lateritic" or erosion is "High"; heat iff temperature >   *)
(* 30, cold iff temperature < 10; rainfall iff precipitation > 0 or the     *)
(* weather code is one of 61, 63, 65, 80, 81, 82; wind iff wind speed > 30; *)
(* the "stable conditions" sentence never.                                  *)
C6_AdviceRules ==
    call.fn = "generate_advice" =>
        LET current == Get(call.weather, "current", <<>>)
            temp    == Get(current, "temperature_2m", 0)
            precip  == Get(current, "precipitation", 0)
            wind    == Get(current, "wind_speed_10m", 0)
            code    == Get(current, "weather_code", 0)
            advice  == call.ret
        IN  /\ InRuleOrder(advice)
            /\ advice[1] = Sentence("soil_type", call.soil.type)
            /\ advice[Len(advice) - 1] = Sentence("crops", call.soil.crops)
            /\ advice[Len(advice)] = Sentence("fertility", <<call.soil.fertility>>)
            /\ HasRule(advice, "erosion") <=>
                    (Contains(<<"Lateritic">>, call.soil.type) \/ call.soil.erosion = "High")
            /\ HasRule(advice, "heat") <=> temp > 30
            /\ HasRule(advice, "cold") <=> temp < 10
            /\ ~(HasRule(advice, "heat") /\ HasRule(advice, "cold"))
            /\ HasRule(advice, "rain") <=> (precip > 0 \/ code \in {61, 63, 65, 80, 81, 82})
            /\ HasRule(advice, "wind") <=> wind > 30
            /\ ~HasRule(advice, "stable")

C6_Witness ==
    /\ call.fn = "generate_advice"
    /\ call.soil = Lateritic
    /\ "current" \in DOMAIN call.weather
    /\ Get(call.weather["current"], "temperature_2m", 0) = 31
    /\ Get(call.weather["current"], "weather_code", 0) = 82
    /\ Get(call.weather["current"], "wind_speed_10m", 0) = 31
    /\ Rules(call.ret) = <<"soil_type", "erosion", "heat", "rain", "wind", "crops", "fertility">>

(* C7, as claimed: get_coordinates never raises and has three               *)
(* distinguishable outcomes, LocationResult, NotFound and TransportError:   *)
(* replies with different outcomes give different return values.            *)
C7_ThreeOutcomes ==
    pc = "geocoded" =>
        /\ result.kind # "raised"
        /\ \A other \in GeoResponses :
                GeoOutcome(other) # GeoOutcome(geo_reply) =>
                    get_coordinates(other) # coords

(* C7, amended: get_coordinates never raises and has two distinguishable    *)
(* outcomes: the (latitude, longitude, name) tuple exactly when the         *)
(* endpoint returns at least one result whose first entry has latitude,     *)
(* longitude and name; None otherwise, both when the endpoint answers with  *)
(* zero results and when the request, status check, parsing or field        *)
(* extraction fails.                                                        *)
C7_TwoOutcomes ==
    pc = "geocoded" =>
        /\ result.kind # "raised"
        /\ coords = None <=> GeoOutcome(geo_reply) \in {"NotFound", "TransportError"}
        /\ coords # None <=> GeoOutcome(geo_reply) = "LocationResult"
        /\ coords # None => coords.kind = "tuple"
        /\ \A other \in GeoResponses :
                (/\ GeoOutcome(other) \in {"NotFound", "TransportError"}
                 /\ GeoOutcome(geo_reply) \in {"NotFound", "TransportError"}) =>
                    get_coordinates(other) = coords

C7_Witness ==
    /\ pc = "geocoded"
    /\ geo_reply.kind = "ok"
    /\ "results" \in DOMAIN geo_reply.json
    /\ Len(geo_reply.json["results"]) = 1
    /\ "name" \notin DOMAIN geo_reply.json["results"][1]
    /\ coords = None

(* C8: for a geocoding response with at least one result the display name   *)
(* is the first result's name, then ", region" iff admin1 is present and    *)
(* non-empty, then ", country" iff country is present and non-empty, in     *)
(* that order; the coordinates are the first result's, unchanged.           *)
C8_DisplayName ==
    (pc = "geocoded" /\ GeoOutcome(geo_reply) = "LocationResult") =>
        LET r == geo_reply.json["results"][1]
            region  == IF "admin1" \in DOMAIN r /\ r["admin1"] # ""
                       THEN <<", ", r["admin1"]>> ELSE <<>>
            country == IF "country" \in DOMAIN r /\ r["country"] # ""
                       THEN <<", ", r["country"]>> ELSE <<>>
        IN  /\ coords # None
            /\ coords.name = <<r["name"]>> \o region \o country
            /\ coords.lat = r["latitude"]
            /\ coords.lon = r["longitude"]

C8_Witness ==
    /\ pc = "geocoded"
    /\ coords # None
    /\ coords.name = <<"Pune", ", ", "Maharashtra", ", ", "India">>
    /\ coords.lat = 100

(* C9: in every successful run the soil profile of the report agrees with   *)
(* its climate zone: polar iff Tundra, temperate iff Brown Earth/Forest,    *)
(* subtropical or subtropical monsoon iff Subtropical Loam/Alluvial,        *)
(* tropical rainforest iff Lateritic, tropical or tropical savanna iff Red  *)
(* and Yellow; so "monsoon" never selects Lateritic and the erosion warning *)
(* is in the advice iff the zone is tropical rainforest.                    *)
C9_SoilAgreesWithZone ==
    (pc = "done" /\ result.kind = "report") =>
        LET zone == result.weather.climate_zone
            soil == result.soil
        IN  /\ zone = <<"polar">> <=> soil = Tundra
            /\ zone = <<"temperate">> <=> soil = BrownEarth
            /\ zone \in {<<"subtropical">>, <<"subtropical", "monsoon">>} <=>
                    soil = SubtropicalLoam
            /\ zone = <<"tropical", "rainforest">> <=> soil = Lateritic
            /\ zone \in {<<"tropical">>, <<"tropical", "savanna">>} <=> soil = RedYellow
            /\ Contains(<<"monsoon">>, zone) => soil # Lateritic
            /\ HasRule(result.advice, "erosion") <=> zone = <<"tropical", "rainforest">>

C9_Witness ==
    /\ pc = "done"
    /\ result.kind = "report"
    /\ result.weather.climate_zone = <<"subtropical", "monsoon">>
    /\ result.soil = SubtropicalLoam
    /\ ~HasRule(result.advice, "erosion")

(* C10: when a successful weather response has no current temperature the   *)
(* report's temperature is "N/A" while the advice treats it as 0: the cold  *)
(* sentence is emitted and the heat sentence is not; a missing wind speed   *)
(* is reported as "N/A" and gives no wind warning.                          *)
C10_DefaultsDiffer ==
    (pc = "done" /\ result.kind = "report") =>
        LET current == Get(weather_reply.json, "current", <<>>)
        IN  /\ "temperature_2m" \notin DOMAIN current =>
                    /\ result.weather.temperature = NA
                    /\ HasRule(result.advice, "cold")
                    /\ ~HasRule(result.advice, "heat")
            /\ "wind_speed_10m" \notin DOMAIN current =>
                    /\ result.weather.wind_speed = NA
                    /\ ~HasRule(result.advice, "wind")

C10_Witness ==
    /\ pc = "done"
    /\ result.kind = "report"
    /\ "current" \in DOMAIN weather_reply.json
    /\ DOMAIN weather_reply.json["current"] = {"precipitation", "weather_code"}
    /\ result.weather.temperature = NA
    /\ result.weather.wind_speed = NA
    /\ Rules(result.advice) = <<"soil_type", "cold", "rain", "crops", "fertility">>

====
